---- MODULE Spec2Model ----
(***************************************************************************)
(* Docker registry client of lib/datasource/docker/common.ts:              *)
(* getAuthHeaders, getManifestResponse, getConfigDigest and getLabels as a *)
(* call stack of async frames.  Every await is a suspension point: the     *)
(* request is issued when the frame suspends and one action delivers the   *)
(* collaborator's answer and runs the code up to the next await.           *)
(***************************************************************************)
EXTENDS Integers, Sequences, FiniteSets, TLC

VARIABLES
  target,     \* the registry the lookups of this behaviour go to
  hostRule,   \* the credential store's rule for that registry
  wwwAuth,    \* the WWW-Authenticate header the registry answers /v2/ with
  cache,      \* package cache, namespace datasource-docker-labels
  call,       \* the public operation in progress: op, tag
  stack,      \* async frames, innermost last
  log,        \* kind and reference of the requests the operation issued
  lastReq,    \* the last request issued, with its options
  lastResp,   \* what the last completed await delivered
  result,     \* outcome of the operation: none, return or throw
  raised,     \* the ExternalHostError objects constructed by the operation
  manifests,  \* manifests parsed by getConfigDigest, outermost level first
  digestOut,  \* outcome of the outermost getConfigDigest call
  lookup,     \* arguments of the getRegistryRepository call, if any
  resolved,   \* what that call returned
  calls,      \* the operations running concurrently, by caller
  store       \* the host rule object the credential store keeps

vars == <<target, hostRule, wwwAuth, cache, call, stack, log, lastReq,
          lastResp, result, raised, manifests, digestOut, lookup, resolved,
          calls, store>>

----------------------------------------------------------------------------
\* Bounds of the model

\* nested getConfigDigest calls the registry is allowed to provoke
MaxDepth == 3
\* minutes in the shortest pause between two public operations
TickMinutes == 30

----------------------------------------------------------------------------
\* Strings are sequences of one-character strings, so that endsWith, the
\* ECR regular expression, toUpperCase and the cache key are computed.

S_https == <<"h","t","t","p","s",":","/","/">>
S_http == <<"h","t","t","p",":","/","/">>
S_dockerio == <<"d","o","c","k","e","r",".","i","o">>
S_quayio == <<"q","u","a","y",".","i","o">>
S_dkrecr == <<".","d","k","r",".","e","c","r",".">>
S_amazonaws == <<".","a","m","a","z","o","n","a","w","s",".","c","o","m">>
S_BASIC == <<"B","A","S","I","C">>

Digits == {"0","1","2","3","4","5","6","7","8","9"}
LowerCase == {"a","b","c","d","e","f","g","h","i","j","k","l","m",
              "n","o","p","q","r","s","t","u","v","w","x","y","z"}

StartsWith(s, p) == Len(s) >= Len(p) /\ SubSeq(s, 1, Len(p)) = p
EndsWith(s, p) == Len(s) >= Len(p) /\ SubSeq(s, Len(s) - Len(p) + 1, Len(s)) = p
\* p occurs in s starting at index i
At(s, i, p) == i >= 1 /\ i + Len(p) - 1 <= Len(s) /\ SubSeq(s, i, i + Len(p) - 1) = p

UpperOf(c) ==
  CASE c = "a" -> "A" [] c = "b" -> "B" [] c = "c" -> "C" [] c = "e" -> "E"
    [] c = "i" -> "I" [] c = "r" -> "R" [] c = "s" -> "S" [] OTHER -> c
toUpperCase(s) == [i \in 1..Len(s) |-> UpperOf(s[i])]

\* ecrRegex = /\d+\.dkr\.ecr\.([-a-z0-9]+)\.amazonaws\.com/ : the set of
\* regions the expression captures in s (empty when it does not match)
ecrRegex(s) ==
  UNION { { SubSeq(s, i + Len(S_dkrecr), j - 1) :
              j \in { k \in (i + Len(S_dkrecr) + 1)..Len(s) :
                        /\ At(s, k, S_amazonaws)
                        /\ \A c \in (i + Len(S_dkrecr))..(k - 1) :
                              s[c] \in Digits \cup LowerCase \cup {"-"} } } :
          i \in { k \in 2..Len(s) : s[k - 1] \in Digits /\ At(s, k, S_dkrecr) } }

\* the host a request to url is sent to (scheme stripped)
HostOf(url) ==
  IF StartsWith(url, S_https) THEN SubSeq(url, Len(S_https) + 1, Len(url))
  ELSE IF StartsWith(url, S_http) THEN SubSeq(url, Len(S_http) + 1, Len(url))
  ELSE url

----------------------------------------------------------------------------
\* JavaScript values

Undefined == [t |-> "undefined"]
Null == [t |-> "null"]
JStr(s) == [t |-> "string", v |-> s]
\* an object: its own properties as a set of <<name, value>> pairs
JObj(pairs) == [t |-> "object", v |-> pairs]
EmptyObj == JObj({})

\* a string value holds a sequence: characters where the code inspects the
\* text, one opaque token (a user name, a password, a token) where it does not
Truthy(x) == /\ x.t \notin {"undefined", "null"}
             /\ ~(x.t = "string" /\ x.v = <<>>)

\* a || b
OrElse(a, b) == IF Truthy(a) THEN a ELSE b

\* obj[name], undefined when obj has no such property
Get(obj, name) ==
  IF \E p \in obj.v : p[1] = name
  THEN (CHOOSE p \in obj.v : p[1] = name)[2]
  ELSE Undefined

\* obj[name] = value
Put(obj, name, value) ==
  JObj({p \in obj.v : p[1] # name} \cup {<<name, value>>})

Return(v) == [kind |-> "return", v |-> v]
Throw(e) == [kind |-> "throw", v |-> e]
NoOutcome == [kind |-> "none", v |-> Undefined]

----------------------------------------------------------------------------
\* Errors.  statusCode 0, code "", host <<>> and message "" stand for a
\* property the error object does not have.

NoHost == <<>>
HOST_DISABLED == "host-disabled"
EXTERNAL_HOST_ERROR == "external-host-error"

Err(name, statusCode, code, host, message) ==
  [t |-> "error", name |-> name, statusCode |-> statusCode, code |-> code,
   host |-> host, message |-> message, ehe |-> FALSE, err |-> Undefined]

\* new ExternalHostError(err)
ExternalHostError(err) ==
  [t |-> "error", name |-> "Error", statusCode |-> 0, code |-> "",
   host |-> NoHost, message |-> EXTERNAL_HOST_ERROR, ehe |-> TRUE, err |-> err]

\* err instanceof ExternalHostError
IsExternalHostError(e) == e.ehe

TypeError == Err("TypeError", 0, "", NoHost, "")
SyntaxError == Err("SyntaxError", 0, "", NoHost, "")

----------------------------------------------------------------------------
\* Inputs: registries, repository, tags and digests

DockerHub == S_https \o <<"i","n","d","e","x",".">> \o S_dockerio
Quay == S_https \o S_quayio
ThirdParty == S_https \o <<"g","h","c","r",".","i","o">>
\* a third-party registry whose name happens to end in docker.io
LookAlike == S_https \o <<"m","y">> \o S_dockerio
Ecr == S_https \o <<"1","2">> \o S_dkrecr \o <<"e","u","-","1">> \o S_amazonaws

Registries == {DockerHub, Quay, ThirdParty, LookAlike, Ecr}
Repository == <<"a","/","b">>
Tags == {<<"v","1">>}
D1 == <<"s","h","a",":","1">>
D2 == <<"s","h","a",":","2">>
Digests == {D1, D2}

\* defaultRegistryUrls[0]
defaultRegistry == DockerHub

\* what hostRules.find can hold for a registry
HostRules ==
  { [username |-> Undefined, password |-> Undefined],
    [username |-> JStr(<<"user">>), password |-> Undefined],
    [username |-> JStr(<<"user">>), password |-> JStr(<<"pass">>)] }

----------------------------------------------------------------------------
\* What the HTTP client can answer

Statuses == {400, 401, 403, 404, 429, 500, 503}

\* err.host: the request's host when the client sets the property.  The
\* code only compares it with quay.io, so its absence is told apart there.
ErrorHosts(host) == IF host = S_quayio THEN {NoHost, host} ELSE {host}

\* errors thrown whatever throwHttpErrors says
TransportErrors(host) ==
  { Err("RequestError", 0, c, h, "") :
      c \in {"", "ETIMEDOUT", "ERR_TLS_CERT_ALTNAME_INVALID"}, h \in ErrorHosts(host) }
  \cup { Err("TimeoutError", 0, "ETIMEDOUT", h, "") : h \in ErrorHosts(host) }
  \cup { Err("Error", 0, "", NoHost, HOST_DISABLED) }

\* errors thrown with throwHttpErrors left at its default
HttpErrors(host) ==
  { Err("HTTPError", s, "", h, "") : s \in Statuses, h \in ErrorHosts(host) }
  \cup TransportErrors(host)

Response(statusCode, wwwAuthenticate, body) ==
  [t |-> "response", statusCode |-> statusCode,
   wwwAuthenticate |-> wwwAuthenticate, body |-> body]

\* a parsed WWW-Authenticate header; scheme is undefined when the header does
\* not parse
Challenges ==
  { [scheme |-> JStr(<<"B","a","s","i","c">>)],
    [scheme |-> JStr(<<"B","e","a","r","e","r">>)],
    [scheme |-> Undefined] }

\* answers to GET {registry}/v2/ of a registry whose header is w
ApiCheckResponses(w) == { Response(s, w, Undefined) : s \in {200, 401, 429} }

\* a body JSON.parse rejects
Unparsable == [t |-> "unparsable"]

\* bodies http.getJson parses for the token exchange
TokenBodies ==
  { JObj({<<"token", JStr(<<"tokA">>)>>}),
    JObj({<<"access_token", JStr(<<"tokB">>)>>}),
    EmptyObj, Null }

\* http.getJson rejects a body that is not JSON
ParseError == Err("ParseError", 0, "", NoHost, "")

MediaTypeList == "application/vnd.docker.distribution.manifest.list.v2+json"
MediaTypeV2 == "application/vnd.docker.distribution.manifest.v2+json"
MediaTypeOther == "application/vnd.oci.image.index.v1+json"

JArray(seq) == [t |-> "array", v |-> seq]

Manifest(schemaVersion, mediaType, list, config) ==
  [t |-> "object", schemaVersion |-> schemaVersion, mediaType |-> mediaType,
   manifests |-> list, config |-> config]

ListEntries ==
  { <<>>,
    <<[digest |-> JStr(D1)], [digest |-> JStr(D2)]>>,
    <<[digest |-> JStr(D2)], [digest |-> JStr(D1)]>> }

Configs ==
  {Undefined} \cup
  { [t |-> "object", digest |-> d] :
      d \in {Undefined, JStr(<<>>), JStr(D1), JStr(D2)} }

\* manifest bodies; deeper tells whether a non-empty manifest list may be sent
ManifestBodies(deeper) ==
  {Unparsable, Null}
  \cup { Manifest(1, MediaTypeV2, Undefined, [t |-> "object", digest |-> JStr(D1)]) }
  \cup { Manifest(2, MediaTypeList, JArray(l), Undefined) :
            l \in {e \in ListEntries : deeper \/ e = <<>>} }
  \cup { Manifest(2, MediaTypeList, Undefined, Undefined) }
  \cup { Manifest(2, MediaTypeV2, Undefined, c) : c \in Configs }
  \cup { Manifest(2, MediaTypeOther, Undefined, Undefined) }

LabelValues == {Undefined, Null, EmptyObj, JObj({<<"maintainer", JStr(<<"me">>)>>})}

\* image configuration blobs
BlobBodies ==
  {Unparsable, Null, [t |-> "object", config |-> Undefined]}
  \cup { [t |-> "object", config |-> [t |-> "object", Labels |-> l]] :
            l \in LabelValues }

----------------------------------------------------------------------------
\* Package cache (namespace datasource-docker-labels): entries with a time
\* to live, each entry carrying the minutes it has left

CacheGet(c, key) ==
  IF \E e \in c : e.key = key /\ e.ttl > 0
  THEN (CHOOSE e \in c : e.key = key /\ e.ttl > 0).value
  ELSE Undefined

CacheSet(c, key, value, minutes) ==
  {e \in c : e.key # key} \cup {[key |-> key, value |-> value, ttl |-> minutes]}

\* the cache after minutes have passed: expired entries are dropped
Age(c, minutes) ==
  { [e EXCEPT !.ttl = @ - minutes] : e \in {x \in c : x.ttl > minutes} }

----------------------------------------------------------------------------
\* Frames, requests and the directives a frame's code ends a step with

Frame(fn, at, tag, loc) == [fn |-> fn, at |-> at, tag |-> tag, loc |-> loc]

Req(kind, reg, ref, opts) ==
  [kind |-> kind, registry |-> reg, repository |-> Repository,
   ref |-> ref, opts |-> opts]
NoReq == Req("none", <<>>, <<>>, Undefined)

NoStore == [t |-> "undefined"]
\* the function completes with outcome out
Finish(out) == [do |-> "finish", out |-> out, store |-> NoStore]
\* the function completes after packageCache.set(key, value, minutes)
FinishStored(out, key, value, minutes) ==
  [do |-> "finish", out |-> out,
   store |-> [t |-> "set", key |-> key, value |-> value, minutes |-> minutes]]
\* the function suspends on the request req
Await(frame, req) == [do |-> "await", frame |-> frame, req |-> req]
\* the function awaits callee(registry, repository, tag)
Invoke(frame, callee, tag) ==
  [do |-> "call", frame |-> frame, callee |-> callee, tag |-> tag]

\* an exception inside a step
IsThrow(d) == d.do = "finish" /\ d.out.kind = "throw"

----------------------------------------------------------------------------
\* getAuthHeaders(registry, dockerRepository)

\* Buffer.from(s).toString('base64'), kept symbolic
Base64(s) == <<"base64(">> \o s \o <<")">>

BasicHeaders(auth) == JObj({<<"authorization", JStr(<<"Basic ">> \o auth)>>})

\* a variant of lines 80-99 without the two delete statements
AfterCredentialsKept(f, registry, opts, challenge) ==
  LET g == [f EXCEPT !.loc = [opts |-> opts, challenge |-> challenge]]
  IN IF challenge.scheme = Undefined
     THEN Finish(Throw(TypeError))
     ELSE IF toUpperCase(challenge.scheme.v) = S_BASIC
     THEN Await([g EXCEPT !.at = "verify"], Req("verify", registry, <<>>, opts))
     ELSE Await([g EXCEPT !.at = "token"], Req("token", registry, <<>>, opts))

\* lines 80-99: strip the credentials, then verify (BASIC) or exchange a token
AfterCredentials(f, registry, opts, challenge) ==
  LET stripped == [opts EXCEPT !.username = Undefined, !.password = Undefined]
      g == [f EXCEPT !.loc = [opts |-> stripped, challenge |-> challenge]]
  IN IF challenge.scheme = Undefined
     THEN Finish(Throw(TypeError))
     ELSE IF toUpperCase(challenge.scheme.v) = S_BASIC
     THEN Await([g EXCEPT !.at = "verify"], Req("verify", registry, <<>>, stripped))
     ELSE Await([g EXCEPT !.at = "token"], Req("token", registry, <<>>, stripped))

\* a variant of line 58 that takes the anonymous path only on a 200
NoChallengeOn200(apiCheckResponse) ==
  /\ apiCheckResponse.wwwAuthenticate = Undefined
  /\ apiCheckResponse.statusCode = 200

\* line 58: apiCheckResponse.headers['www-authenticate'] === undefined
NoChallenge(apiCheckResponse) == apiCheckResponse.wwwAuthenticate = Undefined

\* lines 61-63: the parsed header; nothing parses out of a missing header
WWW_Authenticate(header) ==
  IF header = Undefined THEN [scheme |-> Undefined] ELSE header

\* the try block, from the await the frame is suspended at
getAuthHeadersTry(f, out, registry, rule) ==
  CASE f.at = "apiCheck" ->
         IF out.kind = "throw" THEN Finish(out)
         ELSE IF NoChallenge(out.v) THEN Finish(Return(EmptyObj))
         ELSE LET opts == [username |-> rule.username, password |-> rule.password,
                           headers |-> Undefined]
                  challenge == WWW_Authenticate(out.v.wwwAuthenticate)
              IN IF ecrRegex(registry) # {}
                 THEN Await([f EXCEPT !.at = "ecr",
                                      !.loc = [opts |-> opts, challenge |-> challenge]],
                            Req("ecr", registry, CHOOSE r \in ecrRegex(registry) : TRUE,
                                opts))
                 ELSE IF Truthy(opts.username) /\ Truthy(opts.password)
                 THEN AfterCredentials(f, registry,
                        [opts EXCEPT !.headers =
                            BasicHeaders(Base64(opts.username.v \o <<":">> \o opts.password.v))],
                        challenge)
                 ELSE AfterCredentials(f, registry, opts, challenge)
    [] f.at = "ecr" ->
         IF Truthy(out.v)
         THEN AfterCredentials(f, registry,
                [f.loc.opts EXCEPT !.headers = BasicHeaders(out.v.v)], f.loc.challenge)
         ELSE AfterCredentials(f, registry, f.loc.opts, f.loc.challenge)
    [] f.at = "verify" ->
         IF out.kind = "throw" THEN Finish(out)
         ELSE Finish(Return(f.loc.opts.headers))
    [] f.at = "token" ->
         IF out.kind = "throw" THEN Finish(out)
         ELSE IF out.v.body = Null THEN Finish(Throw(TypeError))
         ELSE LET token == OrElse(Get(out.v.body, "token"),
                                  Get(out.v.body, "access_token"))
              IN IF ~Truthy(token) THEN Finish(Return(Null))
                 ELSE Finish(Return(JObj({<<"authorization",
                                            JStr(<<"Bearer ">> \o token.v)>>})))

\* the catch block, lines 110-151
getAuthHeadersCatch(err, registry) ==
  IF err.host = S_quayio THEN Return(Null)
  ELSE IF err.statusCode = 401 THEN Return(Null)
  ELSE IF err.statusCode = 403 THEN Return(Null)
  ELSE IF err.name = "RequestError" /\ EndsWith(registry, S_dockerio)
  THEN Throw(ExternalHostError(err))
  ELSE IF err.statusCode = 429 /\ EndsWith(registry, S_dockerio)
  THEN Throw(ExternalHostError(err))
  ELSE IF err.statusCode >= 500 /\ err.statusCode < 600
  THEN Throw(ExternalHostError(err))
  ELSE IF err.message = HOST_DISABLED THEN Return(Null)
  ELSE Return(Null)

getAuthHeaders(f, out, registry, rule) ==
  LET d == getAuthHeadersTry(f, out, registry, rule)
  IN IF IsThrow(d) THEN Finish(getAuthHeadersCatch(d.out.v, registry)) ELSE d

----------------------------------------------------------------------------
\* getManifestResponse(registry, dockerRepository, tag)

AcceptManifests == JStr(<<MediaTypeList, ", ", MediaTypeV2>>)

getManifestResponseTry(f, out, registry) ==
  CASE f.at = "authHeaders" ->
         IF out.kind = "throw" THEN Finish(out)
         ELSE IF ~Truthy(out.v) THEN Finish(Return(Null))
         ELSE LET headers == Put(out.v, "accept", AcceptManifests)
              IN Await([f EXCEPT !.at = "get", !.loc = [headers |-> headers]],
                       Req("manifest", registry, f.tag, [headers |-> headers]))
    [] f.at = "get" -> Finish(out)

\* a variant of the catch block without the instanceof test of lines 236-238
getManifestResponseCatchNoRethrow(err, registry) ==
  IF err.statusCode = 401 THEN Return(Null)
  ELSE IF err.statusCode = 404 THEN Return(Null)
  ELSE IF err.statusCode = 429 /\ EndsWith(registry, S_dockerio)
  THEN Throw(ExternalHostError(err))
  ELSE IF err.statusCode >= 500 /\ err.statusCode < 600
  THEN Throw(ExternalHostError(err))
  ELSE IF err.code = "ETIMEDOUT" THEN Return(Null)
  ELSE Return(Null)

\* the catch block, lines 235-284
getManifestResponseCatch(err, registry) ==
  IF IsExternalHostError(err) THEN Throw(err)
  ELSE IF err.statusCode = 401 THEN Return(Null)
  ELSE IF err.statusCode = 404 THEN Return(Null)
  ELSE IF err.statusCode = 429 /\ EndsWith(registry, S_dockerio)
  THEN Throw(ExternalHostError(err))
  ELSE IF err.statusCode >= 500 /\ err.statusCode < 600
  THEN Throw(ExternalHostError(err))
  ELSE IF err.code = "ETIMEDOUT" THEN Return(Null)
  ELSE Return(Null)

getManifestResponse(f, out, registry) ==
  LET d == getManifestResponseTry(f, out, registry)
  IN IF IsThrow(d) THEN Finish(getManifestResponseCatch(d.out.v, registry)) ELSE d

----------------------------------------------------------------------------
\* getConfigDigest(registry, dockerRepository, tag)

\* a variant without the schemaVersion test of lines 305-311
configDigestOfAnySchema(f, manifest) ==
  IF manifest = Null THEN Finish(Throw(TypeError))
  ELSE IF manifest.mediaType = MediaTypeList /\ manifest.manifests = Undefined
  THEN Finish(Throw(TypeError))
  ELSE IF manifest.mediaType = MediaTypeList /\ Len(manifest.manifests.v) # 0
  THEN Invoke([f EXCEPT !.at = "recurse"], "getConfigDigest",
              manifest.manifests.v[1].digest.v)
  ELSE IF manifest.mediaType = MediaTypeV2
  THEN Finish(Return(
         IF manifest.config = Undefined THEN Null
         ELSE OrElse(manifest.config.digest, Null)))
  ELSE Finish(Return(Null))

\* a variant that follows the last entry of a manifest list
configDigestOfLastEntry(f, manifest) ==
  IF manifest = Null THEN Finish(Throw(TypeError))
  ELSE IF manifest.schemaVersion # 2 THEN Finish(Return(Null))
  ELSE IF manifest.mediaType = MediaTypeList /\ manifest.manifests = Undefined
  THEN Finish(Throw(TypeError))
  ELSE IF manifest.mediaType = MediaTypeList /\ Len(manifest.manifests.v) # 0
  THEN Invoke([f EXCEPT !.at = "recurse"], "getConfigDigest",
              manifest.manifests.v[Len(manifest.manifests.v)].digest.v)
  ELSE IF manifest.mediaType = MediaTypeV2
  THEN Finish(Return(
         IF manifest.config = Undefined THEN Null
         ELSE OrElse(manifest.config.digest, Null)))
  ELSE Finish(Return(Null))

\* lines 304-333, on the parsed manifest
configDigestOf(f, manifest) ==
  IF manifest = Null THEN Finish(Throw(TypeError))
  ELSE IF manifest.schemaVersion # 2 THEN Finish(Return(Null))
  ELSE IF manifest.mediaType = MediaTypeList /\ manifest.manifests = Undefined
  THEN Finish(Throw(TypeError))
  ELSE IF manifest.mediaType = MediaTypeList /\ Len(manifest.manifests.v) # 0
  THEN Invoke([f EXCEPT !.at = "recurse"], "getConfigDigest",
              manifest.manifests.v[1].digest.v)
  ELSE IF manifest.mediaType = MediaTypeV2
  THEN Finish(Return(
         IF manifest.config = Undefined THEN Null
         ELSE OrElse(manifest.config.digest, Null)))
  ELSE Finish(Return(Null))

getConfigDigest(f, out) ==
  CASE f.at = "manifestResponse" ->
         IF out.kind = "throw" THEN Finish(out)
         ELSE IF ~Truthy(out.v) THEN Finish(Return(Null))
         ELSE IF out.v.body = Unparsable THEN Finish(Throw(SyntaxError))
         ELSE configDigestOf(f, out.v.body)
    [] f.at = "recurse" -> Finish(out)

----------------------------------------------------------------------------
\* getLabels(registry, dockerRepository, tag)

cacheMinutes == 60

cacheKey(registry, dockerRepository, tag) ==
  registry \o <<":">> \o dockerRepository \o <<":">> \o tag

\* a variant of line 356 that tests the cached value for truthiness
CacheHitTruthy(cachedResult) == Truthy(cachedResult)

\* line 356
CacheHit(cachedResult) == cachedResult # Undefined

\* a variant of lines 362-364 that caches the empty result
getLabelsNoDigestCached(key) ==
  FinishStored(Return(EmptyObj), key, EmptyObj, cacheMinutes)

\* lines 362-364
getLabelsNoDigest(key) == Finish(Return(EmptyObj))

\* lines 376-388, on the blob's body
getLabelsFromBlob(body, key) ==
  IF body = Unparsable THEN Finish(Throw(SyntaxError))
  ELSE IF body = Null \/ body.config = Undefined THEN Finish(Throw(TypeError))
  ELSE FinishStored(Return(body.config.Labels), key, body.config.Labels,
                    cacheMinutes)

\* a variant of lines 358-375 that fetches the blob without a second
\* handshake
getLabelsTryOneHandshake(f, out, registry, tag) ==
  CASE f.at = "configDigest" ->
         IF out.kind = "throw" THEN Finish(out)
         ELSE IF ~Truthy(out.v)
         THEN getLabelsNoDigest(cacheKey(registry, Repository, tag))
         ELSE Await([f EXCEPT !.at = "blobGet", !.loc = [configDigest |-> out.v]],
                    Req("blob", registry, out.v.v, [headers |-> EmptyObj]))
    [] f.at = "authHeaders" -> Finish(out)
    [] f.at = "blobGet" ->
         IF out.kind = "throw" THEN Finish(out)
         ELSE getLabelsFromBlob(out.v.body, cacheKey(registry, Repository, tag))

getLabelsTry(f, out, registry, tag) ==
  CASE f.at = "configDigest" ->
         IF out.kind = "throw" THEN Finish(out)
         ELSE IF ~Truthy(out.v)
         THEN getLabelsNoDigest(cacheKey(registry, Repository, tag))
         ELSE Invoke([f EXCEPT !.at = "authHeaders", !.loc = [configDigest |-> out.v]],
                     "getAuthHeaders", <<>>)
    [] f.at = "authHeaders" ->
         IF out.kind = "throw" THEN Finish(out)
         ELSE IF ~Truthy(out.v) THEN Finish(Return(EmptyObj))
         ELSE Await([f EXCEPT !.at = "blobGet"],
                    Req("blob", registry, f.loc.configDigest.v, [headers |-> out.v]))
    [] f.at = "blobGet" ->
         IF out.kind = "throw" THEN Finish(out)
         ELSE getLabelsFromBlob(out.v.body, cacheKey(registry, Repository, tag))


\* the catch block, lines 389-440: every branch but the first only logs
getLabelsCatch(err, registry) ==
  IF IsExternalHostError(err) THEN Throw(err)
  ELSE Return(EmptyObj)

getLabels(f, out, registry, tag) ==
  IF f.at = "cacheGet"
  THEN IF CacheHit(out.v) THEN Finish(Return(out.v))
       ELSE Invoke([f EXCEPT !.at = "configDigest"], "getConfigDigest", tag)
  ELSE LET d == getLabelsTry(f, out, registry, tag)
       IN IF IsThrow(d) THEN Finish(getLabelsCatch(d.out.v, registry)) ELSE d

----------------------------------------------------------------------------
\* getRegistryRepository(lookupName, registryUrl)

S_slash == <<"/">>
S_https_word == <<"h","t","t","p","s">>
S_http_word == <<"h","t","t","p">>
S_docker_io == <<"d","o","c","k","e","r",".","i","o">>
S_index_docker_io == <<"i","n","d","e","x",".","d","o","c","k","e","r",".","i","o">>
S_dot_docker_io == <<".","d","o","c","k","e","r",".","i","o">>
S_library == <<"l","i","b","r","a","r","y","/">>

\* /^https?:\/\// matches the string
HasScheme(s) == StartsWith(s, S_https) \/ StartsWith(s, S_http)

\* String.prototype.includes
Includes(s, p) == \E i \in 1..Len(s) : At(s, i, p)

\* String.prototype.replace with a string pattern: the first occurrence only
Replace(s, p, r) ==
  IF ~Includes(s, p) THEN s
  ELSE LET i == CHOOSE k \in 1..Len(s) :
                  At(s, k, p) /\ \A j \in 1..(k - 1) : ~At(s, j, p)
       IN SubSeq(s, 1, i - 1) \o r \o SubSeq(s, i + Len(p), Len(s))

\* String.prototype.split('/')
RECURSIVE Split(_)
Split(s) ==
  IF ~Includes(s, S_slash) THEN <<s>>
  ELSE LET i == CHOOSE k \in 1..Len(s) :
                  s[k] = "/" /\ \A j \in 1..(k - 1) : s[j] # "/"
       IN <<SubSeq(s, 1, i - 1)>> \o Split(SubSeq(s, i + 1, Len(s)))

\* Array.prototype.join('/')
RECURSIVE Join(_)
Join(parts) ==
  IF parts = <<>> THEN <<>>
  ELSE IF Len(parts) = 1 THEN parts[1]
  ELSE parts[1] \o S_slash \o Join(Tail(parts))

\* util/url: one slash is appended unless the string ends with one
ensureTrailingSlash(url) ==
  IF url # <<>> /\ url[Len(url)] = "/" THEN url ELSE url \o S_slash

\* util/url: all trailing slashes are removed
RECURSIVE trimTrailingSlash(_)
trimTrailingSlash(url) ==
  IF url # <<>> /\ url[Len(url)] = "/"
  THEN trimTrailingSlash(SubSeq(url, 1, Len(url) - 1))
  ELSE url

\* a variant that takes the scheme for granted
WithSchemeAssumed(registry) == registry

\* lines 164-166 and 186-188: https:// is put before a registry without scheme
WithScheme(registry) ==
  IF HasScheme(registry) THEN registry ELSE S_https \o registry

RegistryRepository(registry, repository) ==
  [registry |-> registry, repository |-> repository]

\* line 193: registry.endsWith('.docker.io') && !repository.includes('/')
IsLibraryImage(registry, repository) ==
  EndsWith(registry, S_dot_docker_io) /\ ~Includes(repository, S_slash)

\* lines 173-199, the path that splits lookupName; opts is what
\* hostRules.find answers for the registry
SplitPath(lookupName, registryUrl, opts) ==
  LET split == Split(lookupName)
      hasHost == /\ Len(split) > 1
                 /\ Includes(split[1], <<".">>) \/ Includes(split[1], <<":">>)
      repository == Join(IF hasHost THEN Tail(split) ELSE split)
      named == IF hasHost /\ split[1] # <<>> THEN split[1] ELSE registryUrl
      indexed == IF named = S_docker_io THEN S_index_docker_io ELSE named
      schemed == WithScheme(indexed)
      registry == IF opts # Null /\ opts.insecureRegistry
                  THEN Replace(schemed, S_https_word, S_http_word)
                  ELSE schemed
  IN RegistryRepository(registry,
       IF IsLibraryImage(registry, repository)
       THEN S_library \o repository ELSE repository)

\* lines 158-172, the path of a lookupName that starts with registryUrl
getRegistryRepository(lookupName, registryUrl, opts) ==
  LET registryEndingWithSlash == ensureTrailingSlash(HostOf(registryUrl))
      trimmed == trimTrailingSlash(registryUrl)
  IN IF registryUrl # defaultRegistry /\ StartsWith(lookupName, registryEndingWithSlash)
     THEN RegistryRepository(
            WithScheme(trimmed),
            Replace(lookupName, registryEndingWithSlash, <<>>))
     ELSE SplitPath(lookupName, registryUrl, opts)

\* lookupName arguments
LookupNames ==
  { <<"n","o","d","e">>,
    <<"a","/","b">>,
    <<"d","o","c","k","e","r",".","i","o","/","n","o","d","e">>,
    <<"d","o","c","k","e","r",".","i","o","/","a","/","b">>,
    <<"i","n","d","e","x",".","d","o","c","k","e","r",".","i","o","/","n","o","d","e">>,
    <<"r",".","i","o","/","a">>,
    <<"r",".","i","o","/","a","/","b">>,
    <<"h",":","5","/","a">>,
    <<"h","t","t","p","s",".","i","o","/","a">>,
    <<"m","y",".","d","o","c","k","e","r",".","i","o","/","n","o","d","e">>,
    <<"a","/","b","/","c">> }

\* registryUrl arguments
RegistryUrls ==
  { <<"h","t","t","p","s",":","/","/","i","n","d","e","x",".","d","o","c","k","e","r",".","i","o">>,
    <<"i","n","d","e","x",".","d","o","c","k","e","r",".","i","o">>,
    <<"d","o","c","k","e","r",".","i","o">>,
    <<"h","t","t","p","s",":","/","/","r",".","i","o">>,
    <<"h","t","t","p",":","/","/","r",".","i","o">>,
    <<"r",".","i","o">>,
    <<"h","t","t","p","s",":","/","/","r",".","i","o","/">>,
    <<"h","t","t","p",":","/","/","h","t","t","p","s",".","i","o">>,
    <<"h","t","t","p","s",":","/","/","m","y",".","d","o","c","k","e","r",".","i","o">>,
    <<"h","t","t","p","s",".","i","o">> }

\* what hostRules.find answers for the registry
LookupRules == {Null, [insecureRegistry |-> FALSE], [insecureRegistry |-> TRUE]}

NoLookup == [lookupName |-> <<>>, registryUrl |-> <<>>, opts |-> Null]

----------------------------------------------------------------------------
\* The call stack

ApiCheckReq(registry) == Req("apiCheck", registry, <<>>, [throwHttpErrors |-> FALSE])

\* the frames a call of fn pushes before its first await: every chain starts
\* with getAuthHeaders' request GET {registry}/v2/
EnterFrames(fn, tag) ==
  CASE fn = "getAuthHeaders" ->
         <<Frame("getAuthHeaders", "apiCheck", <<>>, Undefined)>>
    [] fn = "getManifestResponse" ->
         <<Frame("getManifestResponse", "authHeaders", tag, Undefined),
           Frame("getAuthHeaders", "apiCheck", <<>>, Undefined)>>
    [] fn = "getConfigDigest" ->
         <<Frame("getConfigDigest", "manifestResponse", tag, Undefined),
           Frame("getManifestResponse", "authHeaders", tag, Undefined),
           Frame("getAuthHeaders", "apiCheck", <<>>, Undefined)>>

\* one step of frame f's code on the outcome out of what it awaited
Step(f, out, m) ==
  CASE f.fn = "getAuthHeaders" -> getAuthHeaders(f, out, m.registry, m.rule)
    [] f.fn = "getManifestResponse" -> getManifestResponse(f, out, m.registry)
    [] f.fn = "getConfigDigest" -> getConfigDigest(f, out)
    [] f.fn = "getLabels" -> getLabels(f, out, m.registry, m.tag)

Issue(m, req) ==
  [m EXCEPT !.log = Append(@, [kind |-> req.kind, ref |-> req.ref]),
            !.lastReq = req]

\* deliver out to the innermost frame and run until the next await or the
\* end of the public operation
RECURSIVE Resume(_, _)
Resume(m, out) ==
  IF m.stack = <<>> THEN [m EXCEPT !.result = out]
  ELSE
    LET f == m.stack[Len(m.stack)]
        below == SubSeq(m.stack, 1, Len(m.stack) - 1)
        d == Step(f, out, m)
        parsed == /\ f.fn = "getConfigDigest" /\ f.at = "manifestResponse"
                  /\ out.kind = "return" /\ Truthy(out.v)
                  /\ out.v.body # Unparsable
        m1 == [m EXCEPT !.manifests = IF parsed THEN Append(@, out.v.body) ELSE @]
    IN CASE d.do = "await" ->
              Issue([m1 EXCEPT !.stack = Append(below, d.frame)], d.req)
         [] d.do = "call" ->
              Issue([m1 EXCEPT !.stack = Append(below, d.frame)
                                          \o EnterFrames(d.callee, d.tag)],
                    ApiCheckReq(m.registry))
         [] d.do = "finish" ->
              LET built == /\ d.out.kind = "throw"
                           /\ IsExternalHostError(d.out.v)
                           /\ d.out # out
                  outer == /\ f.fn = "getConfigDigest"
                           /\ \A i \in 1..Len(below) : below[i].fn # "getConfigDigest"
              IN Resume([m1 EXCEPT
                           !.stack = below,
                           !.cache = IF d.store.t = "set"
                                     THEN CacheSet(@, d.store.key, d.store.value,
                                                   d.store.minutes)
                                     ELSE @,
                           !.raised = IF built THEN Append(@, d.out.v) ELSE @,
                           !.digestOut = IF outer THEN d.out ELSE @],
                        d.out)

Machine ==
  [stack |-> stack, log |-> log, lastReq |-> lastReq, cache |-> cache,
   result |-> result, raised |-> raised, manifests |-> manifests,
   digestOut |-> digestOut,
   registry |-> target, tag |-> call.tag, rule |-> hostRule]

Deliver(out) ==
  \E m \in {Resume(Machine, out)} :
     /\ lastResp' = out
     /\ stack' = m.stack
     /\ log' = m.log
     /\ lastReq' = m.lastReq
     /\ cache' = m.cache
     /\ result' = m.result
     /\ raised' = m.raised
     /\ manifests' = m.manifests
     /\ digestOut' = m.digestOut
     /\ UNCHANGED <<target, hostRule, wwwAuth, call, lookup, resolved, calls, store>>

Awaiting(fn, at) ==
  /\ stack # <<>>
  /\ stack[Len(stack)].fn = fn
  /\ stack[Len(stack)].at = at

\* getConfigDigest calls in progress
Depth == Cardinality({i \in 1..Len(stack) : stack[i].fn = "getConfigDigest"})

Outcomes(values, errors) ==
  {Return(v) : v \in values} \cup {Throw(e) : e \in errors}

----------------------------------------------------------------------------
\* Actions

NoCall == [op |-> "none", tag |-> <<>>]

\* the callers that run an operation each, concurrently
Callers == {"a", "b"}

\* one caller's operation: the state of a call, and the answers its awaits
\* were resumed with
Idle ==
  [op |-> "none", tag |-> <<>>, stack |-> <<>>, log |-> <<>>, lastReq |-> NoReq,
   result |-> NoOutcome, raised |-> <<>>, manifests |-> <<>>,
   digestOut |-> NoOutcome, heard |-> <<>>]

NoCalls == [c \in Callers |-> Idle]

\* pauses between two public operations
Pauses == {0, TickMinutes, cacheMinutes}

Init ==
  /\ target \in Registries
  /\ hostRule \in HostRules
  /\ wwwAuth \in {Undefined} \cup Challenges
  /\ cache = {}
  /\ call = NoCall
  /\ stack = <<>>
  /\ log = <<>>
  /\ lastReq = NoReq
  /\ lastResp = NoOutcome
  /\ result = NoOutcome
  /\ raised = <<>>
  /\ manifests = <<>>
  /\ digestOut = NoOutcome
  /\ lookup = NoLookup
  /\ resolved = NoOutcome
  /\ calls = NoCalls
  /\ store = hostRule

\* a public operation is called, pause minutes after the previous one ended
Start(op, tag, frames, requests, pause) ==
  /\ stack = <<>>
  /\ call' = [op |-> op, tag |-> tag]
  /\ cache' = Age(cache, pause)
  /\ stack' = frames
  /\ log' = [i \in 1..Len(requests) |->
               [kind |-> requests[i].kind, ref |-> requests[i].ref]]
  /\ lastReq' = IF requests = <<>> THEN NoReq ELSE requests[Len(requests)]
  /\ lastResp' = NoOutcome
  /\ result' = NoOutcome
  /\ raised' = <<>>
  /\ manifests' = <<>>
  /\ digestOut' = NoOutcome
  /\ UNCHANGED <<target, hostRule, wwwAuth, lookup, resolved, calls, store>>

CallGetAuthHeaders ==
  \E pause \in Pauses :
    Start("getAuthHeaders", <<>>, EnterFrames("getAuthHeaders", <<>>),
          <<ApiCheckReq(target)>>, pause)

CallGetManifestResponse ==
  \E tag \in Tags, pause \in Pauses :
    Start("getManifestResponse", tag, EnterFrames("getManifestResponse", tag),
          <<ApiCheckReq(target)>>, pause)

\* getLabels first awaits packageCache.get
CallGetLabels ==
  \E tag \in Tags, pause \in Pauses :
    Start("getLabels", tag, <<Frame("getLabels", "cacheGet", tag, Undefined)>>,
          <<>>, pause)

CacheGetResponds ==
  /\ Awaiting("getLabels", "cacheGet")
  /\ Deliver(Return(CacheGet(cache, cacheKey(target, Repository, call.tag))))

ApiCheckResponds ==
  /\ Awaiting("getAuthHeaders", "apiCheck")
  /\ \E out \in Outcomes(ApiCheckResponses(wwwAuth), TransportErrors(HostOf(target))) :
       Deliver(out)

\* getECRAuthToken catches every error of the vendor call and returns null
EcrResponds ==
  /\ Awaiting("getAuthHeaders", "ecr")
  /\ \E auth \in {Null, JStr(<<"ecrToken">>)} : Deliver(Return(auth))

VerifyResponds ==
  /\ Awaiting("getAuthHeaders", "verify")
  /\ \E out \in Outcomes({Response(200, Undefined, Undefined)},
                          HttpErrors(HostOf(target))) :
       Deliver(out)

TokenResponds ==
  /\ Awaiting("getAuthHeaders", "token")
  /\ \E out \in Outcomes({Response(200, Undefined, b) : b \in TokenBodies},
                          HttpErrors(HostOf(target)) \cup {ParseError}) :
       Deliver(out)

ManifestResponds ==
  /\ Awaiting("getManifestResponse", "get")
  /\ \E out \in Outcomes({Response(200, Undefined, b) :
                             b \in ManifestBodies(Depth < MaxDepth)},
                          HttpErrors(HostOf(target))) :
       Deliver(out)

BlobResponds ==
  /\ Awaiting("getLabels", "blobGet")
  /\ \E out \in Outcomes({Response(200, Undefined, b) : b \in BlobBodies},
                          HttpErrors(HostOf(target))) :
       Deliver(out)

Next ==
  \/ CallGetAuthHeaders
  \/ CallGetManifestResponse
  \/ CallGetLabels
  \/ CacheGetResponds
  \/ ApiCheckResponds
  \/ EcrResponds
  \/ VerifyResponds
  \/ TokenResponds
  \/ ManifestResponds
  \/ BlobResponds

Spec == Init /\ [][Next]_vars

\* getRegistryRepository is synchronous and touches no state of the module:
\* its calls are explored on their own, one call per behaviour
InitLookup ==
  /\ target = defaultRegistry
  /\ hostRule = [username |-> Undefined, password |-> Undefined]
  /\ wwwAuth = Undefined
  /\ cache = {}
  /\ call = NoCall
  /\ stack = <<>>
  /\ log = <<>>
  /\ lastReq = NoReq
  /\ lastResp = NoOutcome
  /\ result = NoOutcome
  /\ raised = <<>>
  /\ manifests = <<>>
  /\ digestOut = NoOutcome
  /\ lookup \in [lookupName : LookupNames, registryUrl : RegistryUrls,
                  opts : LookupRules]
  /\ resolved = NoOutcome
  /\ calls = NoCalls
  /\ store = hostRule

CallGetRegistryRepository ==
  /\ resolved = NoOutcome
  /\ resolved' = Return(getRegistryRepository(lookup.lookupName,
                                               lookup.registryUrl, lookup.opts))
  /\ UNCHANGED <<target, hostRule, wwwAuth, cache, call, stack, log, lastReq,
                 lastResp, result, raised, manifests, digestOut, lookup,
                 calls, store>>

NextLookup == CallGetRegistryRepository

SpecLookup == InitLookup /\ [][NextLookup]_vars

----------------------------------------------------------------------------
\* Concurrent callers.  The operations of Callers interleave at their awaits,
\* each on a stack of its own, running the code of Step.  They share
\* packageCache and the object the credential store keeps for the registry.

\* a variant of hostRules.find that hands out the store's own object: what the
\* caller deletes from its opts is deleted from the store
hostRulesFindShared(rule, opts) ==
  [username |-> opts.username, password |-> opts.password]

\* hostRules.find builds a new object for every caller: the store's object
\* is what it was, whatever the caller has made of its opts
hostRulesFind(rule, opts) == rule

\* registries the concurrent callers resolve against
PairRegistries == {ThirdParty, Ecr}

\* the stack and first request of a call that has just started
Entry(op, tag) ==
  IF op = "getLabels"
  THEN [Idle EXCEPT !.op = op, !.tag = tag,
                    !.stack = <<Frame("getLabels", "cacheGet", tag, Undefined)>>]
  ELSE [Idle EXCEPT !.op = op, !.tag = tag,
                    !.stack = EnterFrames(op, tag),
                    !.log = <<[kind |-> "apiCheck", ref |-> <<>>]>>,
                    !.lastReq = ApiCheckReq(target)]

\* caller c's call as Resume takes it, with the credentials rule
MachineOf(c, rule, entries) ==
  [stack |-> c.stack, log |-> c.log, lastReq |-> c.lastReq, cache |-> entries,
   result |-> c.result, raised |-> c.raised, manifests |-> c.manifests,
   digestOut |-> c.digestOut, registry |-> target, tag |-> c.tag, rule |-> rule]

\* what the await of the innermost frame f can be resumed with
Answers(f, tag) ==
  CASE f.at = "cacheGet" ->
         {Return(CacheGet(cache, cacheKey(target, Repository, tag)))}
    [] f.at = "apiCheck" -> {Return(Response(401, wwwAuth, Undefined))}
    [] f.at = "ecr" -> {Return(Null), Return(JStr(<<"ecrToken">>))}
    [] f.at = "verify" ->
         {Return(Response(200, Undefined, Undefined)),
          Throw(Err("HTTPError", 401, "", HostOf(target), ""))}
    [] f.at = "token" ->
         { Return(Response(200, Undefined, b)) :
             b \in { JObj({<<"token", JStr(<<"tokA">>)>>}),
                     JObj({<<"access_token", JStr(<<"tokB">>)>>}) } }
    [] f.at = "get" ->
         {Return(Response(200, Undefined,
                          Manifest(2, MediaTypeV2, Undefined,
                                   [t |-> "object", digest |-> JStr(D1)]))),
          Throw(Err("HTTPError", 404, "", HostOf(target), ""))}
    [] f.at = "blobGet" ->
         {Return(Response(200, Undefined,
                          [t |-> "object",
                           config |-> [t |-> "object",
                                       Labels |-> JObj({<<"maintainer",
                                                          JStr(<<"me">>)>>})]]))}

\* the opts object of a getAuthHeaders frame suspended after line 67
HoldsOpts(m) ==
  /\ m.stack # <<>>
  /\ m.stack[Len(m.stack)].fn = "getAuthHeaders"
  /\ m.stack[Len(m.stack)].at \in {"ecr", "verify", "token"}

InitPair ==
  /\ target \in PairRegistries
  /\ hostRule \in HostRules
  /\ wwwAuth \in {Undefined} \cup Challenges
  /\ cache = {}
  /\ call = NoCall
  /\ stack = <<>>
  /\ log = <<>>
  /\ lastReq = NoReq
  /\ lastResp = NoOutcome
  /\ result = NoOutcome
  /\ raised = <<>>
  /\ manifests = <<>>
  /\ digestOut = NoOutcome
  /\ lookup = NoLookup
  /\ resolved = NoOutcome
  /\ calls = NoCalls
  /\ store = hostRule

\* caller c calls one of the three operations
CallerStarts(c) ==
  /\ calls[c].op = "none"
  /\ \E op \in {"getAuthHeaders", "getManifestResponse", "getLabels"}, tag \in Tags :
        calls' = [calls EXCEPT ![c] = Entry(op, tag)]
  /\ UNCHANGED <<target, hostRule, wwwAuth, cache, call, stack, log, lastReq,
                 lastResp, result, raised, manifests, digestOut, lookup,
                 resolved, store>>

\* the await caller c is suspended at completes and c runs to its next await
CallerResumes(c) ==
  /\ calls[c].stack # <<>>
  /\ \E out \in Answers(calls[c].stack[Len(calls[c].stack)], calls[c].tag) :
       \E m \in {Resume(MachineOf(calls[c], store, cache), out)} :
          /\ calls' = [calls EXCEPT ![c] =
                         [@ EXCEPT !.stack = m.stack, !.log = m.log,
                                   !.lastReq = m.lastReq, !.result = m.result,
                                   !.raised = m.raised,
                                   !.manifests = m.manifests,
                                   !.digestOut = m.digestOut,
                                   !.heard = Append(@, out)]]
          /\ cache' = m.cache
          /\ store' = IF HoldsOpts(m)
                      THEN hostRulesFind(store, m.stack[Len(m.stack)].loc.opts)
                      ELSE store
  /\ UNCHANGED <<target, hostRule, wwwAuth, call, stack, log, lastReq,
                 lastResp, result, raised, manifests, digestOut, lookup,
                 resolved>>

NextPair == \E c \in Callers : CallerStarts(c) \/ CallerResumes(c)

SpecPair == InitPair /\ [][NextPair]_vars

----------------------------------------------------------------------------
\* Vocabulary of the properties

\* the call of caller c run alone: the same answers, delivered to a call
\* that no other call runs beside
RECURSIVE Replay(_, _)
Replay(m, heard) ==
  IF heard = <<>> THEN m ELSE Replay(Resume(m, Head(heard)), Tail(heard))

Alone(c) ==
  Replay(MachineOf(Entry(calls[c].op, calls[c].tag), hostRule, {}),
         calls[c].heard)

\* the public operation op has ended
Ended(op) == call.op = op /\ stack = <<>>

\* the operation raised an ExternalHostError to its caller
RaisesHostError == result.kind = "throw" /\ IsExternalHostError(result.v)

\* the operation returned null or {}
ReturnsNothing == result.kind = "return" /\ result.v \in {Null, EmptyObj}

\* the request last answered failed with an HTTP status in codes
FailedWith(codes) == lastResp.kind = "throw" /\ lastResp.v.statusCode \in codes

\* the errors getAuthHeaders does not classify as host-fatal: 401, 403, host
\* disabled, and any error that is no HTTP 5xx, no 429 and no request failure
Ignorable(err) ==
  \/ err.statusCode \in {401, 403}
  \/ err.message = HOST_DISABLED
  \/ /\ err.statusCode \notin 500..599
     /\ err.statusCode # 429
     /\ err.name # "RequestError"

\* the blob GET was answered with a body that parses and has a config
BlobParsed(out) ==
  /\ out.kind = "return"
  /\ out.v.body # Unparsable
  /\ out.v.body # Null
  /\ out.v.body.config # Undefined

IsManifestReq(r) == r.kind = "manifest"
\* the manifest GETs of the operation, in order
ManifestRefs == SelectSeq(log, IsManifestReq)

\* a schemaVersion-2 manifest list with at least one entry
IsList(m) ==
  /\ m # Null
  /\ m.schemaVersion = 2
  /\ m.mediaType = MediaTypeList
  /\ m.manifests # Undefined
  /\ Len(m.manifests.v) > 0

----------------------------------------------------------------------------
\* Properties

\* C1: whenever a request of the chain fails with HTTP 429, the operation
\* ends at once, raising ExternalHostError when the registry is
\* https://index.docker.io and returning null or {} for any other registry.
C1_Http429 ==
  (call.op # "none" /\ FailedWith({429})) =>
     /\ stack = <<>>
     /\ IF target = defaultRegistry THEN RaisesHostError ELSE ReturnsNothing

\* C2: whenever a request of the chain fails with an HTTP 5xx, whatever the
\* registry, the operation ends raising ExternalHostError and never returns
\* null or {}.
C2_Http5xx ==
  (call.op # "none" /\ FailedWith(500..599)) =>
     /\ stack = <<>>
     /\ RaisesHostError

\* C3: an ExternalHostError constructed at any depth below getManifestResponse
\* or getLabels is the only one constructed and is the very error the
\* operation raises: no catch block swallows it or wraps it again.
C3_PassThrough ==
  (call.op \in {"getManifestResponse", "getLabels"} /\ raised # <<>>) =>
     /\ stack = <<>>
     /\ Len(raised) = 1
     /\ result = Throw(raised[1])

\* an ExternalHostError built while the manifest of a list entry was fetched
\* (the nested getConfigDigest call) has reached the caller of getLabels
C3_Witness ==
  /\ Ended("getLabels")
  /\ Len(manifests) = 1
  /\ Len(ManifestRefs) = 2
  /\ raised # <<>>
  /\ result = Throw(raised[1])

\* C4: getLabels ends either returning a label mapping or raising
\* ExternalHostError, for every cache state, response and error.
C4_MappingOrHostError ==
  Ended("getLabels") =>
     \/ result.kind = "return" /\ result.v.t = "object"
     \/ RaisesHostError

\* C5: getAuthHeaders ends either returning headers, {} or null, or raising
\* ExternalHostError, and a request error that is not host-fatal yields null.
C5_HeadersOrNull ==
  Ended("getAuthHeaders") =>
     /\ \/ result.kind = "return" /\ result.v.t \in {"object", "null"}
        \/ RaisesHostError
     /\ (lastResp.kind = "throw" /\ Ignorable(lastResp.v)) =>
           result = Return(Null)

\* C6: when packageCache.get answers getLabels with a live entry (an empty
\* mapping included), getLabels returns exactly that entry, issues no request
\* and leaves the cache as it is; when there is no live entry (never stored,
\* or expired) it goes to the registry, starting with GET {registry}/v2/.
C6_CacheHit ==
  [][ Awaiting("getLabels", "cacheGet") =>
        LET entry == CacheGet(cache, cacheKey(target, Repository, call.tag))
        IN IF entry # Undefined
           THEN /\ stack' = <<>>
                /\ result' = Return(entry)
                /\ log = <<>> /\ log' = log
                /\ lastReq' = lastReq
                /\ cache' = cache
           ELSE /\ stack' # <<>>
                /\ result' = NoOutcome
                /\ Len(log') = 1
                /\ lastReq'.kind = "apiCheck"
                /\ lastReq'.registry = target ]_vars

\* a second getLabels call was answered from a cached empty mapping
C6_Witness ==
  /\ Ended("getLabels")
  /\ log = <<>>
  /\ lastResp = Return(EmptyObj)
  /\ result = Return(EmptyObj)
  /\ \E e \in cache : e.value = EmptyObj /\ e.ttl > 0

\* C7: after a getLabels call whose blob GET and parse succeeded, a missing
\* Labels field counting as the empty mapping, the returned mapping is in the
\* cache for 60 minutes and the next packageCache.get for the key is a hit.
C7_StoredForAnHour ==
  (Ended("getLabels") /\ lastReq.kind = "blob" /\ BlobParsed(lastResp)) =>
     LET labels == lastResp.v.body.config.Labels
         mapping == IF labels = Undefined THEN EmptyObj ELSE labels
         key == cacheKey(target, Repository, call.tag)
     IN /\ result = Return(mapping)
        /\ [key |-> key, value |-> mapping, ttl |-> cacheMinutes] \in cache
        /\ CacheHit(CacheGet(cache, key))

\* C8: while an operation runs, the cache changes only in the step in which
\* getLabels receives a blob body that parses; every other step leaves it
\* unchanged, and when such a step ends getLabels past the cache lookup,
\* getLabels returns {} or raises ExternalHostError.
C8_WriteOnlyAfterBlob ==
  [][ (stack # <<>> /\ ~(Awaiting("getLabels", "blobGet") /\ BlobParsed(lastResp'))) =>
        /\ cache' = cache
        /\ (call.op = "getLabels" /\ stack' = <<>>
              /\ ~Awaiting("getLabels", "cacheGet")) =>
             \/ result' = Return(EmptyObj)
             \/ result'.kind = "throw" /\ IsExternalHostError(result'.v) ]_vars

\* getLabels returned {} after the blob GET failed, the cache still empty
C8_Witness ==
  /\ Ended("getLabels")
  /\ lastReq.kind = "blob"
  /\ lastResp.kind = "throw"
  /\ result = Return(EmptyObj)
  /\ cache = {}

\* C9: when GET {registry}/v2/ is answered without a WWW-Authenticate
\* header, whatever the status, getAuthHeaders is over in that step: it
\* returns {} and no vendor token call, verification GET or token exchange
\* is issued.
C9_NoChallenge ==
  [][ (/\ Awaiting("getAuthHeaders", "apiCheck")
       /\ lastResp'.kind = "return"
       /\ lastResp'.v.wwwAuthenticate = Undefined) =>
        /\ \A i \in 1..Len(stack') : stack'[i].fn # "getAuthHeaders"
        /\ lastReq'.kind \notin {"ecr", "verify", "token"}
        /\ Len(log') <= Len(log) + 1
        /\ call.op = "getAuthHeaders" =>
             /\ stack' = <<>>
             /\ result' = Return(EmptyObj)
             /\ log' = log ]_vars

\* getAuthHeaders returned {} on a 401 without a WWW-Authenticate header
C9_Witness ==
  /\ Ended("getAuthHeaders")
  /\ lastResp.kind = "return"
  /\ lastResp.v.statusCode = 401
  /\ lastResp.v.wwwAuthenticate = Undefined
  /\ Len(log) = 1
  /\ result = Return(EmptyObj)

\* C10: every manifest GET after the first asks for the digest of the FIRST
\* entry of the manifest list parsed just before, on the same registry and
\* repository; and when the last manifest fetched parses and is no such
\* list, getConfigDigest returns its config.digest if it is a single-image
\* manifest (null when absent) and null for any other media type.
C10_FirstEntry ==
  call.op = "getLabels" =>
    /\ \A i \in 1..Len(ManifestRefs) :
         IF i = 1 THEN ManifestRefs[i].ref = call.tag
         ELSE /\ i - 1 <= Len(manifests)
              /\ IsList(manifests[i - 1])
              /\ ManifestRefs[i].ref = manifests[i - 1].manifests.v[1].digest.v
    /\ lastReq.kind = "manifest" =>
         lastReq.registry = target /\ lastReq.repository = Repository
    /\ (/\ digestOut.kind = "return"
        /\ manifests # <<>>
        /\ Len(manifests) = Len(ManifestRefs)
        /\ ~IsList(manifests[Len(manifests)])) =>
         LET last == manifests[Len(manifests)]
         IN digestOut.v =
              IF /\ last.schemaVersion = 2
                 /\ last.mediaType = MediaTypeV2
                 /\ last.config # Undefined
                 /\ Truthy(last.config.digest)
              THEN last.config.digest
              ELSE Null

\* a list whose first entry is D2 resolved to the config digest D1 of the
\* manifest fetched under D2
C10_Witness ==
  /\ call.op = "getLabels"
  /\ Len(manifests) = 2
  /\ IsList(manifests[1])
  /\ manifests[1].manifests.v[1].digest.v = D2
  /\ ManifestRefs[2].ref = D2
  /\ digestOut = Return(JStr(D1))

\* C11: whenever the manifest fetched last, at the top level or for a list
\* entry, has a schemaVersion other than 2, getConfigDigest has returned null
\* without raising, the manifest GET is the last request of the operation,
\* and getLabels has returned {} with the cache holding no value for the key.
C11_SchemaVersion ==
  (/\ call.op = "getLabels"
   /\ manifests # <<>>
   /\ Len(manifests) = Len(ManifestRefs)
   /\ manifests[Len(manifests)] # Null
   /\ manifests[Len(manifests)].schemaVersion # 2) =>
     /\ digestOut = Return(Null)
     /\ raised = <<>>
     /\ log[Len(log)].kind = "manifest"
     /\ lastReq.kind = "manifest"
     /\ stack = <<>>
     /\ result = Return(EmptyObj)
     /\ CacheGet(cache, cacheKey(target, Repository, call.tag)) = Undefined

\* the manifest of a list entry had schemaVersion 1 and getLabels returned {}
C11_Witness ==
  /\ Ended("getLabels")
  /\ Len(manifests) = 2
  /\ IsList(manifests[1])
  /\ manifests[2] # Null
  /\ manifests[2].schemaVersion = 1
  /\ result = Return(EmptyObj)
  /\ cache = {}

\* C12: the registry getRegistryRepository returns starts with http:// or
\* https://, on the path of a lookupName that embeds registryUrl and on the
\* split path, with and without the insecureRegistry downgrade.
C12_RegistryHasScheme ==
  resolved.kind = "return" =>
     \/ StartsWith(resolved.v.registry, S_https)
     \/ StartsWith(resolved.v.registry, S_http)

\* an insecure registry whose host name contains https was downgraded
C12_Witness ==
  /\ resolved.kind = "return"
  /\ lookup.opts = [insecureRegistry |-> TRUE]
  /\ lookup.registryUrl = S_http \o S_https_word \o <<".","i","o">>
  /\ lookup.lookupName = <<"n","o","d","e">>
  /\ resolved.v.registry = S_http \o S_http_word \o <<".","i","o">>

\* C20: whenever the registry getRegistryRepository returns ends in
\* .docker.io, the returned repository has a namespace: a derived repository
\* without '/' comes back prefixed with library/, on every path.
C20_LibraryPrefix ==
  (resolved.kind = "return" /\ EndsWith(resolved.v.registry, S_dot_docker_io)) =>
     \/ StartsWith(resolved.v.repository, S_library)
     \/ Includes(resolved.v.repository, S_slash)

\* C13: the recursion of getConfigDigest descends once, from the tag to the
\* digest of a list entry, whatever the registry answers: never more than two
\* getConfigDigest calls are in progress, also when the manifest fetched by
\* digest is itself a manifest list.
C13_BoundedDescent == Depth <= 2

\* C14: against quay.io no failure of a request propagates: whenever a
\* request fails, the operation ends returning null or {}.
C14_QuaySwallowsAll ==
  (target = Quay /\ call.op # "none" /\ lastResp.kind = "throw") =>
     /\ stack = <<>>
     /\ ReturnsNothing

\* C15: a request that fails with code ETIMEDOUT or
\* ERR_TLS_CERT_ALTNAME_INVALID is ignorable for every registry: the
\* operation ends, getAuthHeaders and getManifestResponse returning null and
\* getLabels returning {}, and no ExternalHostError is raised.
C15_TimeoutAndTlsIgnorable ==
  (/\ call.op # "none"
   /\ lastResp.kind = "throw"
   /\ lastResp.v.code \in {"ETIMEDOUT", "ERR_TLS_CERT_ALTNAME_INVALID"}) =>
     /\ stack = <<>>
     /\ raised = <<>>
     /\ result = Return(IF call.op = "getLabels" THEN EmptyObj ELSE Null)

\* C16: the options of the BASIC verification GET and of the bearer
\* token-exchange GET never hold a username or a password, whatever the host
\* rule held and whichever path led to the request; of the credentials only
\* the derived Basic authorization header may be there.
C16_CredentialsStripped ==
  lastReq.kind \in {"verify", "token"} =>
     /\ lastReq.opts.username = Undefined
     /\ lastReq.opts.password = Undefined
     /\ \/ lastReq.opts.headers = Undefined
        \/ \E auth \in {Base64(<<"user", ":", "pass">>), <<"ecrToken">>} :
              lastReq.opts.headers = BasicHeaders(auth)

\* C16: both requests are issued for a host rule with a username and a
\* password, carrying the header derived from them
C16_Witness ==
  /\ lastReq.kind \in {"verify", "token"}
  /\ Truthy(hostRule.username)
  /\ Truthy(hostRule.password)
  /\ lastReq.opts.headers = BasicHeaders(Base64(<<"user", ":", "pass">>))

\* the requests of the authentication handshake
HandshakeKinds == {"apiCheck", "ecr", "verify", "token"}

\* the request log[i] is a manifest or blob GET
IsAuthenticatedGet(i) == log[i].kind \in {"manifest", "blob"}

\* what the handshake whose last request was answered by lastResp returns
HandshakeHeaders ==
  CASE log[Len(log) - 1].kind = "apiCheck" -> EmptyObj
    [] log[Len(log) - 1].kind = "verify" ->
         IF ecrRegex(target) # {}
         THEN BasicHeaders(<<"ecrToken">>)
         ELSE BasicHeaders(Base64(<<"user", ":", "pass">>))
    [] log[Len(log) - 1].kind = "token" ->
         JObj({<<"authorization",
                 JStr(<<"Bearer ">> \o OrElse(Get(lastResp.v.body, "token"),
                                              Get(lastResp.v.body, "access_token")).v)>>})
    [] OTHER -> Undefined

\* C17: authentication headers are never reused.  Within one call every
\* manifest GET and blob GET directly follows a handshake that started after
\* the previous authenticated GET, and carries the headers that handshake
\* returned (plus the accept header for a manifest); a getLabels miss runs
\* handshake, manifest GET per recursion level, handshake, blob GET, the
\* blob GET being the last request.
C17_HeadersNeverReused ==
  /\ \A i \in 1..Len(log) :
        IsAuthenticatedGet(i) =>
          /\ i > 1
          /\ log[i - 1].kind \in {"apiCheck", "verify", "token"}
          /\ \E j \in 1..(i - 1) :
                /\ log[j].kind = "apiCheck"
                /\ \A k \in (j + 1)..(i - 1) :
                      log[k].kind \in HandshakeKinds \ {"apiCheck"}
                /\ j > 1 => IsAuthenticatedGet(j - 1)
          /\ log[i].kind = "blob" =>
                /\ i = Len(log)
                /\ call.op = "getLabels"
                /\ Cardinality({j \in 1..(i - 1) : log[j].kind = "manifest"})
                     = Len(manifests)
                /\ manifests # <<>>
  /\ (lastReq.kind = "manifest" /\ Awaiting("getManifestResponse", "get")) =>
        lastReq.opts.headers = Put(HandshakeHeaders, "accept", AcceptManifests)
  /\ (lastReq.kind = "blob" /\ Awaiting("getLabels", "blobGet")) =>
        lastReq.opts.headers = HandshakeHeaders

\* C17: a getLabels miss on a manifest list is about to fetch the blob with
\* the bearer token of its third handshake
C17_Witness ==
  /\ call.op = "getLabels"
  /\ Len(manifests) = 2
  /\ Awaiting("getLabels", "blobGet")
  /\ lastReq.kind = "blob"
  /\ Get(lastReq.opts.headers, "authorization") = JStr(<<"Bearer ", "tokB">>)
  /\ Cardinality({i \in 1..Len(log) : log[i].kind = "apiCheck"}) = 3

\* the challenge names the Basic scheme, in any letter case
BasicChallenge ==
  /\ wwwAuth # Undefined
  /\ wwwAuth.scheme # Undefined
  /\ toUpperCase(wwwAuth.scheme.v) = S_BASIC

\* C18: for a BASIC challenge no token exchange is issued, and once the
\* verification GET has succeeded getAuthHeaders returns a header mapping,
\* also when no credentials are configured (a mapping without an
\* authorization entry), so that getManifestResponse goes on to the manifest
\* GET; when the verification GET fails no headers are returned.
C18_BasicReturnsMapping ==
  BasicChallenge =>
     /\ \A i \in 1..Len(log) : log[i].kind # "token"
     /\ (/\ call.op = "getAuthHeaders"
         /\ lastReq.kind = "verify"
         /\ stack = <<>>
         /\ lastResp.kind = "return") =>
           /\ result.kind = "return"
           /\ result.v.t = "object"
           /\ (~Truthy(hostRule.username) \/ ~Truthy(hostRule.password)) =>
                 Get(result.v, "authorization") = Undefined
     /\ (/\ call.op = "getManifestResponse"
         /\ lastReq.kind = "verify"
         /\ stack = <<>>) =>
           lastResp.kind = "throw"
     /\ (/\ call.op = "getAuthHeaders"
         /\ lastReq.kind = "verify"
         /\ stack = <<>>
         /\ lastResp.kind = "throw") =>
           (result.kind = "return" => result.v = Null)

====
